---- MODULE Spec2Model ----
(***************************************************************************)
(* CORD-19 metadata pipeline: load_and_explore_data, clean_data and the    *)
(* aggregations of analysis_visualization, as run by main().               *)
(*                                                                         *)
(* A table is a sequence of rows; a row is a function from column names to *)
(* cells.  A text cell is a tuple of one-character strings, so that        *)
(* str.split, str.strip, str.lower and re.findall are computed character   *)
(* by character.  The missing text value (float nan in an object column)   *)
(* is the tuple NaN, which is no text.  A publish_time cell is a record    *)
(* with a kind: "str" (raw text), "NaN", "datetime64" or "NaT".            *)
(* Chart rendering (matplotlib, WordCloud) is not modelled.                *)
(***************************************************************************)
EXTENDS Integers, Sequences, FiniteSets, TLC

VARIABLES pc, cols, df, df_clean, err, out, removed_count,
          yearly_counts, top_journals, common_words, top_sources

vars == <<pc, cols, df, df_clean, err, out, removed_count,
          yearly_counts, top_journals, common_words, top_sources>>

(* ------------------------------ bounds --------------------------------- *)

\* Largest number of rows of a loaded table.
MaxRows == 4

(* ------------------------- characters and text ------------------------- *)

LowerSeq == <<"a", "b", "c", "d", "e", "f", "g", "h", "i", "j", "k", "l", "m", "n", "o", "p", "q", "r", "s", "t", "u", "v", "w", "x", "y", "z">>
UpperSeq == <<"A", "B", "C", "D", "E", "F", "G", "H", "I", "J", "K", "L", "M", "N", "O", "P", "Q", "R", "S", "T", "U", "V", "W", "X", "Y", "Z">>
DigitSeq == <<"0", "1", "2", "3", "4", "5", "6", "7", "8", "9">>

Range(s) == {s[i] : i \in DOMAIN s}

Letters == Range(LowerSeq) \cup Range(UpperSeq)
Digits == Range(DigitSeq)

\* [a-zA-Z]
IsAlpha(c) == c \in Letters

IsDigit(c) == c \in Digits

\* \w of the re module, on the characters of the model
IsWordChar(c) == IsAlpha(c) \/ IsDigit(c) \/ c = "_"

\* what str.split() and str.strip() treat as whitespace
IsSpace(c) == c \in {" ", "\t", "\n", "\r", "\f"}

\* str.lower() on one character
LowerChar(c) ==
    IF \E i \in DOMAIN UpperSeq : UpperSeq[i] = c
    THEN LowerSeq[CHOOSE i \in DOMAIN UpperSeq : UpperSeq[i] = c]
    ELSE c

\* str.lower()
lower(s) == [i \in DOMAIN s |-> LowerChar(s[i])]

DigitVal(c) == (CHOOSE i \in DOMAIN DigitSeq : DigitSeq[i] = c) - 1

\* the missing value of a text column
NaN == <<"NaN">>

\* Series.isna() on one text cell
isna(v) == v = NaN

\* the missing value of a numeric column
nan == -1

\* str.split(): i is the scan position, tok the token being read (empty
\* between tokens).  Returns the list of tokens.
RECURSIVE SplitFrom(_, _, _)
SplitFrom(s, i, tok) ==
    IF i > Len(s)
    THEN IF tok = <<>> THEN <<>> ELSE <<tok>>
    ELSE IF IsSpace(s[i])
         THEN (IF tok = <<>> THEN <<>> ELSE <<tok>>) \o SplitFrom(s, i + 1, <<>>)
         ELSE SplitFrom(s, i + 1, Append(tok, s[i]))

split(s) == SplitFrom(s, 1, <<>>)

\* str.strip(): drop leading and trailing whitespace
RECURSIVE lstrip(_)
lstrip(s) ==
    IF s # <<>> /\ IsSpace(Head(s)) THEN lstrip(Tail(s)) ELSE s

RECURSIVE rstrip(_)
rstrip(s) ==
    IF s # <<>> /\ IsSpace(s[Len(s)]) THEN rstrip(SubSeq(s, 1, Len(s) - 1)) ELSE s

strip(s) == rstrip(lstrip(s))

\* ' '.join(list of texts)
RECURSIVE join(_)
join(l) ==
    IF l = <<>> THEN <<>>
    ELSE IF Len(l) = 1 THEN l[1]
    ELSE l[1] \o <<" ">> \o join(Tail(l))

(* ------------------------------ literals ------------------------------- *)

UnknownTitle == <<"U", "n", "k", "n", "o", "w", "n", " ", "T", "i", "t", "l", "e">>
UnknownJournal == <<"U", "n", "k", "n", "o", "w", "n", " ", "J", "o", "u", "r", "n", "a", "l">>
Unknown == <<"U", "n", "k", "n", "o", "w", "n">>

\* the columns clean_data reads
RequiredColumns == {"title", "abstract", "journal", "publish_time", "source_x"}

(* ----------------------------- input pool ------------------------------ *)

T_CovidStudy == <<"C", "o", "v", "i", "d", " ", "S", "t", "u", "d", "y">>
T_covidStudyResults == <<"c", "o", "v", "i", "d", " ", "s", "t", "u", "d", "y", " ", "r", "e", "s", "u", "l", "t", "s">>
T_covid19 == <<"c", "o", "v", "i", "d", "1", "9", " ", "s", "t", "u", "d", "y">>
T_theRna == <<"T", "h", "e", " ", "R", "N", "A", " ", "o", "f", " ", "i", "t">>
A_short == <<"a", " ", "b", " ", " ", "c">>
A_blank == <<" ", "\t">>
A_padded == <<" ", "n", "e", "w", " ", " ", "v", "i", "r", "u", "s", "\n">>
J_A == <<"A">>
J_B == <<"B">>
S_PMC == <<"P", "M", "C">>
S_WHO == <<"W", "H", "O">>
D_2018 == <<"2", "0", "1", "8", "-", "0", "7", "-", "0", "4">>
D_2019 == <<"2", "0", "1", "9", "-", "0", "5", "-", "0", "1">>
D_2020a == <<"2", "0", "2", "0", "-", "0", "3", "-", "1", "5">>
D_bad == <<"n", "o", "t", "-", "a", "-", "d", "a", "t", "e">>

Str(s) == [kind |-> "str", s |-> s]
NaNDate == [kind |-> "NaN"]
NaT == [kind |-> "NaT"]
Timestamp(y, m, d) == [kind |-> "datetime64", year |-> y, month |-> m, day |-> d]

Row(t, a, j, p, s) ==
    [c \in RequiredColumns |->
        CASE c = "title" -> t
          [] c = "abstract" -> a
          [] c = "journal" -> j
          [] c = "publish_time" -> p
          [] c = "source_x" -> s]

\* the rows a metadata file of the model may hold
RowPool ==
    { Row(NaN, NaN, J_A, Str(D_2020a), S_PMC),
      Row(T_CovidStudy, A_short, J_A, Str(D_2020a), S_PMC),
      Row(T_covidStudyResults, NaN, J_B, Str(D_2019), S_WHO),
      Row(T_covid19, A_blank, J_B, Str(D_bad), NaN),
      Row(NaN, A_padded, NaN, NaNDate, S_WHO),
      Row(T_theRna, <<>>, J_A, Str(D_2018), S_PMC) }

\* the tables pd.read_csv may return: up to MaxRows rows of the pool, with
\* all the required columns or all but one
Restrict(r, cs) == [c \in cs |-> r[c]]

Tables(cs) ==
    UNION { { [i \in 1..n |-> Restrict(t[i], cs)] : t \in [1..n -> RowPool] }
            : n \in 0..MaxRows }

ColumnSets == {RequiredColumns} \cup {RequiredColumns \ {c} : c \in RequiredColumns}

(* ------------------------------ cleaning ------------------------------- *)

\* r with column c set to v (df[c] = ... on one row; adds the column when new)
SetCol(r, c, v) == [k \in DOMAIN r \cup {c} |-> IF k = c THEN v ELSE r[k]]

Num2(a, b) == 10 * DigitVal(a) + DigitVal(b)

\* the date parser on one text: an ISO date YYYY-MM-DD parses, anything the
\* parser cannot read is coerced to NaT (errors='coerce')
ParseDate(s) ==
    IF /\ Len(s) = 10
       /\ s[5] = "-" /\ s[8] = "-"
       /\ \A i \in {1, 2, 3, 4, 6, 7, 9, 10} : IsDigit(s[i])
       /\ Num2(s[6], s[7]) \in 1..12
       /\ Num2(s[9], s[10]) \in 1..31
    THEN Timestamp(100 * Num2(s[1], s[2]) + Num2(s[3], s[4]),
                   Num2(s[6], s[7]), Num2(s[9], s[10]))
    ELSE NaT

\* a parser that reads text only and coerces everything else
to_datetime_strict(v) ==
    CASE v.kind = "str" -> ParseDate(v.s)
      [] OTHER -> NaT

\* pd.to_datetime(cell, errors='coerce')
to_datetime(v) ==
    CASE v.kind = "str" -> ParseDate(v.s)
      [] v.kind = "datetime64" -> v
      [] OTHER -> NaT

\* .dt.year and .dt.month of one cell
dt_year(v) == IF v.kind = "datetime64" THEN v.year ELSE nan
dt_month(v) == IF v.kind = "datetime64" THEN v.month ELSE nan

\* number of rows of t whose column c equals v
CountEq(t, c, v) == Cardinality({i \in DOMAIN t : t[i][c] = v})

\* every value of the column, whatever its frequency
mode_any(t, c) == {t[i][c] : i \in DOMAIN t} \ {nan}

\* Series.mode() of column c: the most frequent non-missing values, as a
\* set; pandas returns them sorted ascending
mode(t, c) ==
    LET vals == {t[i][c] : i \in DOMAIN t} \ {nan}
    IN  {v \in vals : \A w \in vals : CountEq(t, c, w) <= CountEq(t, c, v)}

Min(S) == CHOOSE x \in S : \A y \in S : x <= y

\* Series.fillna(v) on one numeric cell
fillna_num(x, v) == IF x = nan THEN v ELSE x

\* Series.fillna(v) on one text cell
fillna(x, v) == IF isna(x) THEN v ELSE x

handle_dates(t) ==
    LET conv == [i \in DOMAIN t |->
                    SetCol(t[i], "publish_time", to_datetime(t[i]["publish_time"]))]
        ym == [i \in DOMAIN t |->
                    SetCol(SetCol(conv[i], "publication_year", dt_year(conv[i]["publish_time"])),
                           "publication_month", dt_month(conv[i]["publish_time"]))]
        mode_year == mode(ym, "publication_year")
    IN  IF mode_year # {}
        THEN [i \in DOMAIN t |->
                SetCol(ym[i], "publication_year",
                       fillna_num(ym[i]["publication_year"], Min(mode_year)))]
        ELSE ym

\* the mask of line 64, on a row whose columns were filled by lines 54-60
KeepRow(r) == ~(isna(r["title"]) /\ isna(r["abstract"]))

\* lines 54-57 without line 60
FillRow_nojournal(r) ==
    SetCol(SetCol(r, "title", fillna(r["title"], UnknownTitle)),
           "abstract", fillna(r["abstract"], <<>>))

FillRow(r) ==
    SetCol(SetCol(SetCol(r, "title", fillna(r["title"], UnknownTitle)),
                  "abstract", fillna(r["abstract"], <<>>)),
           "journal", fillna(r["journal"], UnknownJournal))

\* returns the table and removed_count
handle_missing_values(t) ==
    LET filled == [i \in DOMAIN t |-> FillRow(t[i])]
        initial_count == Len(filled)
        kept == SelectSeq(filled, KeepRow)
    IN  [df |-> kept, removed_count |-> initial_count - Len(kept)]

\* has_abstract taken from the length of the untrimmed abstract
FeatureRow_nostrip(r) ==
    LET r1 == SetCol(r, "abstract_word_count", Len(split(r["abstract"])))
        r2 == SetCol(r1, "title_word_count", Len(split(r1["title"])))
        r3 == SetCol(r2, "has_abstract", Len(r2["abstract"]) > 0)
    IN  SetCol(r3, "source_type", fillna(r3["source_x"], Unknown))

FeatureRow(r) ==
    LET r1 == SetCol(r, "abstract_word_count", Len(split(r["abstract"])))
        r2 == SetCol(r1, "title_word_count", Len(split(r1["title"])))
        r3 == SetCol(r2, "has_abstract", Len(strip(r2["abstract"])) > 0)
    IN  SetCol(r3, "source_type", fillna(r3["source_x"], Unknown))

create_new_features(t) == [i \in DOMAIN t |-> FeatureRow(t[i])]

\* The function of clean_data in which the first lookup df[c] of a column
\* absent from cs raises KeyError: publish_time is read at line 34, title,
\* abstract and journal at lines 54-60, source_x at line 84.
RaisedIn_late(cs) ==
    IF "publish_time" \notin cs THEN "handle_dates"
    ELSE IF {"title", "abstract", "journal", "source_x"} \ cs # {}
         THEN "handle_missing_values"
         ELSE "none"

RaisedIn(cs) ==
    IF "publish_time" \notin cs THEN "handle_dates"
    ELSE IF {"title", "abstract", "journal"} \ cs # {} THEN "handle_missing_values"
    ELSE IF "source_x" \notin cs THEN "create_new_features"
    ELSE "none"

\* clean_data on a table t with columns cs: the cleaned table, the error
\* raised, the progress lines printed up to then, and removed_count
clean_data(t, cs) ==
    LET out0 == <<"Starting data cleaning process...", "Original dataset shape">>
        out1 == out0 \o <<"Processing date columns...">>
        out2 == out1 \o <<"Date range", "Handling missing values...">>
        out3 == out2 \o <<"Removed rows", "Creating new features...">>
        out4 == out3 \o <<"Cleaned dataset shape">>
        at == RaisedIn(cs)
    IN  CASE at = "handle_dates" ->
               [err |-> "KeyError", df |-> <<>>, out |-> out1, removed_count |-> 0]
          [] at = "handle_missing_values" ->
               [err |-> "KeyError", df |-> <<>>, out |-> out2, removed_count |-> 0]
          [] at = "create_new_features" ->
               [err |-> "KeyError", df |-> <<>>, out |-> out3,
                removed_count |-> handle_missing_values(handle_dates(t)).removed_count]
          [] OTHER ->
               LET m == handle_missing_values(handle_dates(t))
               IN  [err |-> "none", df |-> create_new_features(m.df),
                    out |-> out4, removed_count |-> m.removed_count]

(* ------------------------------ analysis ------------------------------- *)

\* the floor of line 120
MinYear == 2019

\* head(10) of line 130, head(15) of line 205, most_common(20) of line 174
TopJournals == 10
TopSources == 15
TopWords == 20

\* the {3,} of the pattern of line 162
MinLen == 3

Max(S) == CHOOSE x \in S : \A y \in S : y <= x

\* column c of table t as a list, without the rows where it is the missing
\* value na (dropna)
RECURSIVE Column(_, _, _)
Column(t, c, na) ==
    IF t = <<>> THEN <<>>
    ELSE (IF t[1][c] = na THEN <<>> ELSE <<t[1][c]>>) \o Column(Tail(t), c, na)

Occurrences(l, v) == Cardinality({i \in DOMAIN l : l[i] = v})

\* the distinct values of a list in the order of their first occurrence,
\* each with its number of occurrences
FirstSeenCounts(l) ==
    LET firsts == SelectSeq([i \in DOMAIN l |-> <<i, l[i]>>],
                            LAMBDA p : \A k \in 1..(p[1] - 1) : l[k] # p[2])
    IN  [i \in DOMAIN firsts |-> <<firsts[i][2], Occurrences(l, firsts[i][2])>>]

\* all the orders of the elements of a list
RECURSIVE Orders(_)
Orders(l) ==
    IF l = <<>> THEN {<<>>}
    ELSE UNION { { <<l[i]>> \o p :
                     p \in Orders(SubSeq(l, 1, i - 1) \o SubSeq(l, i + 1, Len(l))) }
                 : i \in DOMAIN l }

\* Series.value_counts(sort=False): first-seen order, no sort by count
value_counts_unsorted(l) == {FirstSeenCounts(l)}

\* Series.value_counts() of a list of non-missing values: (value, count)
\* pairs by descending count.  The counts are sorted with
\* Series.sort_values, whose default kind 'quicksort' is not a stable sort:
\* the order among equal counts is not fixed by the library, so every order
\* of the pairs that is descending in count is a possible result.
value_counts(l) ==
    { p \in Orders(FirstSeenCounts(l)) :
        \A i, j \in DOMAIN p : i < j => p[i][2] >= p[j][2] }

\* Series.head(n), list[:n]
head(l, n) == SubSeq(l, 1, IF Len(l) < n THEN Len(l) ELSE n)

\* insertion of pair x into a list of pairs sorted by ascending key
RECURSIVE InsertByKey(_, _)
InsertByKey(l, x) ==
    IF l = <<>> THEN <<x>>
    ELSE IF x[1] < l[1][1] THEN <<x>> \o l
    ELSE <<l[1]>> \o InsertByKey(Tail(l), x)

\* Series.sort_index() on (key, count) pairs
RECURSIVE sort_index(_)
sort_index(l) ==
    IF l = <<>> THEN <<>> ELSE InsertByKey(sort_index(SubSeq(l, 1, Len(l) - 1)), l[Len(l)])

\* lines 119-120 with the floor excluded
YearlyCounts_above(vc) == SelectSeq(sort_index(vc), LAMBDA p : p[1] > MinYear)

\* lines 119-120 on the value counts of publication_year
YearlyCounts(vc) == SelectSeq(sort_index(vc), LAMBDA p : p[1] >= MinYear)

\* \b at position i of s (between s[i - 1] and s[i])
WordBoundary(s, i) ==
    (i > 1 /\ IsWordChar(s[i - 1])) # (i <= Len(s) /\ IsWordChar(s[i]))

\* number of consecutive letters of s from position i on
RECURSIVE RunLen(_, _)
RunLen(s, i) ==
    IF i <= Len(s) /\ IsAlpha(s[i]) THEN 1 + RunLen(s, i + 1) ELSE 0

\* the pattern [a-zA-Z]{3,} without the two \b
MatchLen_nob(s, i) ==
    LET g == RunLen(s, i)
    IN  IF g >= MinLen THEN g ELSE 0

\* length of the match of \b[a-zA-Z]{3,}\b starting at position i of s, 0
\* when there is none: \b must hold at i, and the greedy quantifier settles
\* on the longest run of at least MinLen letters after which \b holds
MatchLen(s, i) ==
    IF ~WordBoundary(s, i) THEN 0
    ELSE LET g == RunLen(s, i)
             ks == {k \in MinLen..g : WordBoundary(s, i + k)}
         IN  IF ks # {} THEN Max(ks) ELSE 0

\* re.findall(r'\b[a-zA-Z]{3,}\b', s), scanning from position i: the
\* non-overlapping matches, left to right
RECURSIVE findall(_, _)
findall(s, i) ==
    IF i > Len(s) THEN <<>>
    ELSE LET k == MatchLen(s, i)
         IN  IF k > 0
             THEN <<SubSeq(s, i, i + k - 1)>> \o findall(s, i + k)
             ELSE findall(s, i + 1)

stop_words ==
    {<<"t", "h", "e">>, <<"a", "n", "d">>, <<"o", "f">>,
     <<"i", "n">>, <<"t", "o">>, <<"a">>,
     <<"f", "o", "r">>, <<"w", "i", "t", "h">>, <<"o", "n">>,
     <<"b", "y">>, <<"f", "r", "o", "m">>, <<"a", "s">>,
     <<"a", "n">>, <<"a", "t">>, <<"t", "h", "a", "t">>,
     <<"t", "h", "i", "s">>, <<"i", "s">>, <<"a", "r", "e">>,
     <<"w", "a", "s">>, <<"w", "e", "r", "e">>, <<"b", "e">>,
     <<"b", "e", "e", "n">>, <<"h", "a", "v", "e">>, <<"h", "a", "s">>,
     <<"h", "a", "d">>, <<"d", "o">>, <<"d", "o", "e", "s">>,
     <<"d", "i", "d">>, <<"w", "i", "l", "l">>, <<"w", "o", "u", "l", "d">>,
     <<"c", "o", "u", "l", "d">>, <<"s", "h", "o", "u", "l", "d">>, <<"m", "a", "y">>,
     <<"m", "i", "g", "h", "t">>, <<"m", "u", "s", "t">>, <<"c", "a", "n">>}

\* insertion of pair x behind the pairs whose count is at least x's
RECURSIVE InsertByCount(_, _)
InsertByCount(l, x) ==
    IF l = <<>> THEN <<x>>
    ELSE IF l[1][2] < x[2] THEN <<x>> \o l
    ELSE <<l[1]>> \o InsertByCount(Tail(l), x)

\* sorted(pairs, key=count, reverse=True): a stable sort
RECURSIVE SortByCount(_)
SortByCount(l) ==
    IF l = <<>> THEN <<>>
    ELSE InsertByCount(SortByCount(SubSeq(l, 1, Len(l) - 1)), l[Len(l)])

\* Counter(words).most_common(n): a Counter keeps its keys in first-seen
\* order and most_common is sorted(..., reverse=True)[:n]
most_common(words, n) == head(SortByCount(FirstSeenCounts(words)), n)

\* lines 159-174 of analyze_titles on the table t
WordFrequency(t) ==
    LET all_titles == join(Column(t, "title", NaN))
        words == findall(lower(all_titles), 1)
        filtered_words == SelectSeq(words, LAMBDA w : w \notin stop_words)
    IN  most_common(filtered_words, TopWords)

(* ------------------------------ pipeline ------------------------------- *)

Init ==
    /\ pc = "start"
    /\ cols = {}
    /\ df = <<>>
    /\ df_clean = <<>>
    /\ err = "none"
    /\ out = <<>>
    /\ removed_count = 0
    /\ yearly_counts = <<>>
    /\ top_journals = <<>>
    /\ common_words = <<>>
    /\ top_sources = <<>>

\* load_and_explore_data printing the column types before the first rows
LoadAndExploreData_dtypesFirst ==
    /\ pc = "start"
    /\ \E cs \in ColumnSets : \E t \in Tables(cs) :
          /\ cols' = cs
          /\ df' = t
    /\ out' = out \o <<"Loading dataset...", "Dataset shape", "Column data types",
                       "First few rows", "Dataset info">>
    /\ pc' = "loaded"
    /\ UNCHANGED <<df_clean, err, removed_count,
                   yearly_counts, top_journals, common_words, top_sources>>

\* load_and_explore_data('metadata.csv'): the file holds any table of the pool
LoadAndExploreData ==
    /\ pc = "start"
    /\ \E cs \in ColumnSets : \E t \in Tables(cs) :
          /\ cols' = cs
          /\ df' = t
    /\ out' = out \o <<"Loading dataset...", "Dataset shape", "First few rows",
                       "Column data types", "Dataset info">>
    /\ pc' = "loaded"
    /\ UNCHANGED <<df_clean, err, removed_count,
                   yearly_counts, top_journals, common_words, top_sources>>

\* read_csv on a missing metadata.csv raises
LoadMissingFile ==
    /\ pc = "start"
    /\ out' = out \o <<"Loading dataset...">>
    /\ err' = "FileNotFoundError"
    /\ pc' = "failed"
    /\ UNCHANGED <<cols, df, df_clean, removed_count,
                   yearly_counts, top_journals, common_words, top_sources>>

CheckMissingValues ==
    /\ pc = "loaded"
    /\ out' = out \o <<"Missing values analysis">>
    /\ pc' = "checked"
    /\ UNCHANGED <<cols, df, df_clean, err, removed_count,
                   yearly_counts, top_journals, common_words, top_sources>>

BasicStatistics ==
    /\ pc = "checked"
    /\ out' = out \o <<"Basic statistics", "Numerical columns">>
    /\ pc' = "explored"
    /\ UNCHANGED <<cols, df, df_clean, err, removed_count,
                   yearly_counts, top_journals, common_words, top_sources>>

\* clean_data without the df.copy() of line 12: the column assignments of
\* handle_dates and the fills of handle_missing_values then write into the
\* caller's table (line 64 rebinds df to a new table, so the derived columns
\* do not)
CleanData_nocopy ==
    /\ pc = "explored"
    /\ LET res == clean_data(df, cols)
       IN  /\ out' = out \o res.out
           /\ err' = res.err
           /\ removed_count' = res.removed_count
           /\ df_clean' = res.df
           /\ pc' = IF res.err = "none" THEN "cleaned" ELSE "failed"
    /\ df' = CASE RaisedIn(cols) = "handle_dates" -> df
               [] RaisedIn(cols) = "handle_missing_values" -> handle_dates(df)
               [] OTHER -> [i \in DOMAIN df |-> FillRow(handle_dates(df)[i])]
    /\ UNCHANGED <<cols, yearly_counts, top_journals, common_words, top_sources>>

\* clean_data(df) as called by main: it works on df.copy(), so df is untouched
CleanData ==
    /\ pc = "explored"
    /\ LET res == clean_data(df, cols)
       IN  /\ out' = out \o res.out
           /\ err' = res.err
           /\ removed_count' = res.removed_count
           /\ df_clean' = res.df
           /\ pc' = IF res.err = "none" THEN "cleaned" ELSE "failed"
    /\ UNCHANGED <<cols, df, yearly_counts, top_journals, common_words, top_sources>>

GetCleaningReport ==
    /\ pc = "cleaned"
    /\ out' = out \o <<"Data cleaning report", "Rows removed", "Missing values per key column">>
    /\ pc' = "reported"
    /\ UNCHANGED <<cols, df, df_clean, err, removed_count,
                   yearly_counts, top_journals, common_words, top_sources>>

AnalyzePublicationTrends ==
    /\ pc = "reported"
    /\ \E vy \in value_counts(Column(df_clean, "publication_year", nan)) :
          yearly_counts' = YearlyCounts(vy)
    /\ \E vj \in value_counts(Column(df_clean, "journal", NaN)) :
          top_journals' = head(vj, TopJournals)
    /\ out' = out \o <<"Analyzing publication trends...">>
    /\ pc' = "trends"
    /\ UNCHANGED <<cols, df, df_clean, err, removed_count, common_words, top_sources>>

\* line 180, words, counts = zip(*common_words), raises ValueError when
\* common_words is empty: zip() of nothing yields nothing to unpack
AnalyzeTitles ==
    /\ pc = "trends"
    /\ out' = out \o <<"Analyzing paper titles...">>
    /\ LET res == WordFrequency(df_clean)
       IN  IF res = <<>>
           THEN /\ err' = "ValueError"
                /\ pc' = "failed"
                /\ UNCHANGED common_words
           ELSE /\ common_words' = res
                /\ pc' = "titles"
                /\ UNCHANGED err
    /\ UNCHANGED <<cols, df, df_clean, removed_count,
                   yearly_counts, top_journals, top_sources>>

AnalyzeSources ==
    /\ pc = "titles"
    /\ \E vs \in value_counts(Column(df_clean, "source_x", NaN)) :
          top_sources' = head(vs, TopSources)
    /\ out' = out \o <<"Analyzing paper sources...">>
    /\ pc' = "sources"
    /\ UNCHANGED <<cols, df, df_clean, err, removed_count,
                   yearly_counts, top_journals, common_words>>

\* line 226, yearly_counts.idxmax(), raises ValueError on an empty Series
GenerateAnalysisReport ==
    /\ pc = "sources"
    /\ IF yearly_counts = <<>>
       THEN /\ out' = out \o <<"COMPREHENSIVE ANALYSIS REPORT", "Total papers analyzed",
                               "Time period">>
            /\ err' = "ValueError"
            /\ pc' = "failed"
       ELSE /\ out' = out \o <<"COMPREHENSIVE ANALYSIS REPORT", "Total papers analyzed",
                               "Time period", "Publication peak year", "Top 5 Journals",
                               "Top 5 Sources", "Papers with abstracts",
                               "Average abstract length">>
            /\ pc' = "done"
            /\ UNCHANGED err
    /\ UNCHANGED <<cols, df, df_clean, removed_count,
                   yearly_counts, top_journals, common_words, top_sources>>

\* clean_data applied to the table clean_data returned
Reclean ==
    /\ pc = "cleaned"
    /\ LET cs == UNION {DOMAIN df_clean[i] : i \in DOMAIN df_clean}
                 \cup (IF df_clean = <<>> THEN RequiredColumns ELSE {})
           res == clean_data(df_clean, cs)
       IN  /\ df' = df_clean
           /\ cols' = cs
           /\ out' = out \o res.out
           /\ err' = res.err
           /\ removed_count' = res.removed_count
           /\ df_clean' = res.df
           /\ pc' = IF res.err = "none" THEN "recleaned" ELSE "failed"
    /\ UNCHANGED <<yearly_counts, top_journals, common_words, top_sources>>

Next ==
    \/ LoadAndExploreData
    \/ LoadMissingFile
    \/ CheckMissingValues
    \/ BasicStatistics
    \/ CleanData
    \/ GetCleaningReport
    \/ AnalyzePublicationTrends
    \/ AnalyzeTitles
    \/ AnalyzeSources
    \/ GenerateAnalysisReport

Spec == Init /\ [][Next]_vars

NextReclean == Next \/ Reclean

SpecReclean == Init /\ [][NextReclean]_vars

(* ------------------------------- claims -------------------------------- *)

\* clean_data has returned the table df_clean for the loaded table df
Cleaned ==
    \/ pc \in {"cleaned", "reported", "trends", "titles", "sources", "done"}
    \/ pc = "failed" /\ err = "ValueError"

\* clean_data was called on the loaded table df (it returned or raised)
CleanCalled == Cleaned \/ (pc = "failed" /\ err = "KeyError")

\* rows of the loaded table whose title and abstract are both absent
BothAbsent == {i \in DOMAIN df : isna(df[i]["title"]) /\ isna(df[i]["abstract"])}

\* C1: clean drops exactly the rows whose original title and abstract were
\* both absent: rows_after = rows_before - rows_dropped, and the reported
\* removed count is that number.
C1_DropsBothAbsent ==
    Cleaned =>
        /\ Len(df_clean) = Len(df) - Cardinality(BothAbsent)
        /\ removed_count = Cardinality(BothAbsent)

\* C2 as stated: a table lacking a required column makes clean fail with a
\* missing-column error before any row has been processed.  The code defines
\* no SchemaError class; the missing-column error it can raise is KeyError,
\* which is accepted here as the error of the claim.
C2_SchemaErrorBeforeProcessing ==
    (CleanCalled /\ cols # RequiredColumns) =>
        /\ pc = "failed"
        /\ err \in {"SchemaError", "KeyError"}
        /\ "Date range" \notin Range(out)

\* C2 amended: a table lacking a required column makes clean fail with the
\* KeyError of the first lookup of that column: before any processing when
\* publish_time is absent, after the date columns were processed when title,
\* abstract or journal is absent, and after the fills and the row removal
\* when only source_x is absent; no cleaned table is returned.
C2_KeyErrorAtFirstLookup ==
    (CleanCalled /\ cols # RequiredColumns) =>
        /\ pc = "failed"
        /\ err = "KeyError"
        /\ df_clean = <<>>
        /\ "Date range" \in Range(out) <=> "publish_time" \in cols
        /\ "Removed rows" \in Range(out) <=> cols = RequiredColumns \ {"source_x"}
        /\ "Cleaned dataset shape" \notin Range(out)

C2_Witness ==
    /\ CleanCalled
    /\ cols = RequiredColumns \ {"journal"}
    /\ Len(df) > 0
    /\ err = "KeyError"
    /\ "Date range" \in Range(out)

\* C4: in every row of the cleaned table title, abstract and journal are
\* present; an absent title became "Unknown Title", an absent abstract the
\* empty text, an absent journal "Unknown Journal", and present values are
\* those of the input row.
C4_NoAbsentText ==
    Cleaned =>
        \A j \in DOMAIN df_clean :
            /\ ~isna(df_clean[j]["title"])
            /\ ~isna(df_clean[j]["abstract"])
            /\ ~isna(df_clean[j]["journal"])
            /\ \E i \in DOMAIN df :
                /\ df_clean[j]["title"] =
                     IF isna(df[i]["title"]) THEN UnknownTitle ELSE df[i]["title"]
                /\ df_clean[j]["abstract"] =
                     IF isna(df[i]["abstract"]) THEN <<>> ELSE df[i]["abstract"]
                /\ df_clean[j]["journal"] =
                     IF isna(df[i]["journal"]) THEN UnknownJournal ELSE df[i]["journal"]
                /\ df_clean[j]["source_x"] = df[i]["source_x"]

C4_Witness ==
    /\ Cleaned
    /\ \E i \in DOMAIN df :
          /\ isna(df[i]["title"]) /\ isna(df[i]["journal"])
          /\ ~isna(df[i]["abstract"])
    /\ \E i \in DOMAIN df : isna(df[i]["abstract"]) /\ ~isna(df[i]["title"])
    /\ \E j \in DOMAIN df_clean : df_clean[j]["journal"] = UnknownJournal
    /\ \E j \in DOMAIN df_clean : df_clean[j]["title"] = T_CovidStudy

\* number of whitespace-separated tokens of a text: the positions where a
\* token starts
TokenStarts(s) ==
    {i \in DOMAIN s : ~IsSpace(s[i]) /\ (i = 1 \/ IsSpace(s[i - 1]))}

\* C5: every cleaned row has abstract_word_count and title_word_count equal to
\* the number of whitespace-separated tokens of its (imputed) abstract and
\* title, has_abstract true exactly when the abstract holds a non-whitespace
\* character, and source_type equal to source_x, or "Unknown" when absent.
C5_DerivedColumns ==
    Cleaned =>
        \A j \in DOMAIN df_clean :
            LET r == df_clean[j]
            IN  /\ {"abstract_word_count", "title_word_count", "has_abstract",
                    "source_type"} \subseteq DOMAIN r
                /\ r["abstract_word_count"] = Cardinality(TokenStarts(r["abstract"]))
                /\ r["title_word_count"] = Cardinality(TokenStarts(r["title"]))
                /\ r["has_abstract"] = (\E i \in DOMAIN r["abstract"] : ~IsSpace(r["abstract"][i]))
                /\ r["source_type"] = IF isna(r["source_x"]) THEN Unknown ELSE r["source_x"]

C5_Witness ==
    /\ Cleaned
    /\ \E j \in DOMAIN df_clean :
          /\ df_clean[j]["title"] = UnknownTitle
          /\ df_clean[j]["title_word_count"] = 2
          /\ df_clean[j]["abstract_word_count"] = 2
    /\ \E j \in DOMAIN df_clean :
          /\ df_clean[j]["abstract"] = A_blank
          /\ ~df_clean[j]["has_abstract"]
          /\ df_clean[j]["source_type"] = Unknown

\* the year each row of the loaded table parses to, nan when it does not
ParsedYears == [i \in DOMAIN df |-> dt_year(to_datetime(df[i]["publish_time"]))]

\* the years of the list py that no other year of py outnumbers
MostFrequent(py) ==
    LET ys == Range(py) \ {nan}
        freq == [y \in ys |-> Occurrences(py, y)]
    IN  {y \in ys : \A z \in ys : freq[z] <= freq[y]}

\* C6: clean does not raise on an unparseable publish_time; the value becomes
\* absent, and a row without a year gets a most frequent year of the rows of
\* the loaded batch that have one; when no row has a year, every
\* publication_year stays absent.
C6_YearModeFill ==
    (CleanCalled /\ cols = RequiredColumns) =>
        LET py == ParsedYears
            mf == MostFrequent(py)
        IN  /\ Cleaned
            /\ \A j \in DOMAIN df_clean :
                  LET r == df_clean[j]
                  IN  /\ r["publish_time"].kind \in {"datetime64", "NaT"}
                      /\ r["publish_time"].kind = "datetime64" =>
                            r["publication_year"] = r["publish_time"].year
                      /\ r["publish_time"].kind = "NaT" =>
                            IF mf = {}
                            THEN r["publication_year"] = nan
                            ELSE r["publication_year"] \in mf
            /\ \A i \in DOMAIN df : py[i] = nan =>
                  \E j \in DOMAIN df_clean :
                      /\ df_clean[j]["publish_time"] = NaT
                      /\ df_clean[j]["source_x"] = df[i]["source_x"]

C6_Witness ==
    /\ Cleaned
    /\ Len(df) = 4
    /\ \E i \in DOMAIN df : df[i]["publish_time"] = Str(D_bad)
    /\ Range(ParsedYears) = {2019, 2020, nan}
    /\ MostFrequent(ParsedYears) = {2020}
    /\ \E i \in BothAbsent : ParsedYears[i] = 2020
    /\ \E j \in DOMAIN df_clean :
          df_clean[j]["publish_time"] = NaT /\ df_clean[j]["publication_year"] = 2020

\* a second witness of C6: two years equally frequent, the smaller one fills
C6_Tie ==
    /\ Cleaned
    /\ MostFrequent(ParsedYears) = {2019, 2020}
    /\ \E j \in DOMAIN df_clean :
          df_clean[j]["publish_time"] = NaT /\ df_clean[j]["publication_year"] = 2019

\* a second witness of C6's last case: no row of the batch has a year
C6_NoYear ==
    /\ Cleaned
    /\ Len(df) = 2
    /\ Range(ParsedYears) = {nan}

\* C7: clean applied to a table clean returned yields that table again: same
\* rows, order, columns and values.
C7_Idempotent ==
    pc = "recleaned" => (df_clean = df /\ err = "none")

C7_Witness ==
    /\ pc = "recleaned"
    /\ Len(df) = 3
    /\ \E i \in DOMAIN df : df[i]["publish_time"] = NaT /\ df[i]["publication_year"] = 2020
    /\ \E i \in DOMAIN df : df[i]["publish_time"].kind = "datetime64"
    /\ \E i \in DOMAIN df : df[i]["title"] = UnknownTitle

\* analyze_publication_trends has returned (and maybe later functions)
TrendsDone == pc \in {"trends", "titles", "sources", "done"} \/ (pc = "failed" /\ err = "ValueError")

\* analyze_titles has just returned common_words
TitlesDone == pc = "titles"

\* analyze_sources has returned
SourcesDone == pc \in {"sources", "done"}

\* C3: the aggregations over a table with zero rows raise no error and give
\* empty results.
C3_EmptyTableNoError ==
    (cols = RequiredColumns /\ df_clean = <<>> /\ (TrendsDone \/ pc = "failed")) =>
        /\ err = "none"
        /\ yearly_counts = <<>> /\ top_journals = <<>>
        /\ common_words = <<>> /\ top_sources = <<>>

\* the text word_frequency tokenizes: the lower-cased titles joined by spaces
TitleText == lower(join(Column(df_clean, "title", NaN)))

\* maximal runs of letters of s of length at least MinLen, as <<first, last>>
AlphaRuns(s) ==
    LET starts == {i \in DOMAIN s : IsAlpha(s[i]) /\ (i = 1 \/ ~IsAlpha(s[i - 1]))}
        ends == {j \in DOMAIN s : IsAlpha(s[j]) /\ (j = Len(s) \/ ~IsAlpha(s[j + 1]))}
    IN  { r \in starts \X ends :
            /\ r[2] - r[1] + 1 >= MinLen
            /\ \A q \in r[1]..r[2] : IsAlpha(s[q]) }

\* the runs of AlphaRuns that no letter, digit or underscore touches
WholeWordRuns(s) ==
    { r \in AlphaRuns(s) :
        /\ r[1] = 1 \/ ~IsWordChar(s[r[1] - 1])
        /\ r[2] = Len(s) \/ ~IsWordChar(s[r[2] + 1]) }

\* res is the frequency list of the tokens of s at the runs R: the tokens
\* outside stop_words, each once with its number of occurrences, the
\* TopWords most frequent, by descending count, equal counts by first
\* occurrence in s
IsFrequencyList(res, s, R) ==
    LET K == {r \in R : SubSeq(s, r[1], r[2]) \notin stop_words}
        W == {SubSeq(s, r[1], r[2]) : r \in K}
        At == [w \in W |-> {r[1] : r \in {r \in K : SubSeq(s, r[1], r[2]) = w}}]
        Count == [w \in W |-> Cardinality(At[w])]
        First == [w \in W |-> Min(At[w])]
    IN  /\ Len(res) = IF Cardinality(W) < TopWords THEN Cardinality(W) ELSE TopWords
        /\ \A i \in DOMAIN res : res[i][1] \in W /\ res[i][2] = Count[res[i][1]]
        /\ \A i, j \in DOMAIN res :
              i < j => \/ res[i][2] > res[j][2]
                       \/ res[i][2] = res[j][2] /\ First[res[i][1]] < First[res[j][1]]
        /\ \A w \in W \ {res[i][1] : i \in DOMAIN res} :
              \A i \in DOMAIN res : Count[w] <= res[i][2]

W_covid == <<"c", "o", "v", "i", "d">>
W_study == <<"s", "t", "u", "d", "y">>
W_results == <<"r", "e", "s", "u", "l", "t", "s">>

\* C8 as stated: the tokens of word_frequency are the alphabetic runs of
\* length at least min_len of the lower-cased text.
C8_AlphabeticRuns ==
    TitlesDone =>
        LET text == TitleText
            runs == AlphaRuns(text)
        IN  IsFrequencyList(common_words, text, runs)

\* C8 amended: the tokens are the alphabetic runs of length at least min_len
\* that have no letter, digit or underscore next to them (whole words made of
\* letters only); stopwords are removed, the rest counted, and at most 20
\* (word, count) pairs returned by descending count, equal counts by first
\* occurrence; the titles "Covid Study", "covid study results" give
\* (covid,2), (study,2), (results,1).
C8_WholeWords ==
    TitlesDone =>
        /\ LET text == TitleText
               runs == WholeWordRuns(text)
           IN  IsFrequencyList(common_words, text, runs)
        /\ Column(df_clean, "title", NaN) = <<T_CovidStudy, T_covidStudyResults>> =>
              common_words = << <<W_covid, 2>>, <<W_study, 2>>, <<W_results, 1>> >>

C8_Witness ==
    /\ pc = "titles"
    /\ Column(df_clean, "title", NaN) = <<T_covid19, T_CovidStudy, T_covidStudyResults>>
    /\ common_words = << <<W_study, 3>>, <<W_covid, 2>>, <<W_results, 1>> >>

\* a second witness of C8: the example of the claim
C8_Example ==
    /\ pc = "titles"
    /\ Column(df_clean, "title", NaN) = <<T_CovidStudy, T_covidStudyResults>>
    /\ common_words = << <<W_covid, 2>>, <<W_study, 2>>, <<W_results, 1>> >>

\* res holds, for the column c of the cleaned table, at most n (value, count)
\* pairs, one per distinct value, with the n largest counts in descending
\* order
IsTopN(res, c, n) ==
    LET l == Column(df_clean, c, NaN)
        V == Range(l)
    IN  /\ Len(res) = IF Cardinality(V) < n THEN Cardinality(V) ELSE n
        /\ \A i \in DOMAIN res : res[i][1] \in V /\ res[i][2] = Occurrences(l, res[i][1])
        /\ \A i, j \in DOMAIN res : i < j => res[i][1] # res[j][1] /\ res[i][2] >= res[j][2]
        /\ \A v \in V \ {res[i][1] : i \in DOMAIN res} :
              \A i \in DOMAIN res : Occurrences(l, v) <= res[i][2]

\* in res, values with equal counts are in the order of their first row
TiesFirstSeen(res, c) ==
    LET l == Column(df_clean, c, NaN)
        First(v) == Min({i \in DOMAIN l : l[i] = v})
    IN  \A i, j \in DOMAIN res :
            (i < j /\ res[i][2] = res[j][2]) => First(res[i][1]) < First(res[j][1])

LoaderLines ==
    {"Loading dataset...", "Dataset shape", "First few rows", "Column data types",
     "Dataset info", "Missing values analysis", "Basic statistics", "Numerical columns"}
CleanerLines ==
    {"Starting data cleaning process...", "Original dataset shape",
     "Processing date columns...", "Date range", "Handling missing values...",
     "Removed rows", "Creating new features...", "Cleaned dataset shape",
     "Data cleaning report", "Rows removed", "Missing values per key column"}

\* 1 for a line of the Loader, 2 for the Cleaner, 3 for the Analyzer
Stage(line) ==
    IF line \in LoaderLines THEN 1 ELSE IF line \in CleanerLines THEN 2 ELSE 3

\* the positions of a line in the output so far
Positions(line) == {i \in DOMAIN out : out[i] = line}

\* the report sections named by tags are printed at most once each and in the
\* order of tags, none before the ones that precede it, and a complete run
\* has printed them all
SectionsInOrder(tags) ==
    /\ \A k \in DOMAIN tags : Cardinality(Positions(tags[k])) <= 1
    /\ \A a, b \in DOMAIN tags :
          (a < b /\ Positions(tags[b]) # {}) =>
              /\ Positions(tags[a]) # {}
              /\ Min(Positions(tags[a])) < Min(Positions(tags[b]))
    /\ pc = "done" => \A k \in DOMAIN tags : Positions(tags[k]) # {}

\* the Loader has printed its last line before the Cleaner prints its first,
\* and the Cleaner its last before the Analyzer prints its first
ComponentsInOrder ==
    /\ \A i, j \in DOMAIN out : i < j => Stage(out[i]) <= Stage(out[j])
    /\ (\E i \in DOMAIN out : Stage(out[i]) = 2) => Positions("Numerical columns") # {}
    /\ (\E i \in DOMAIN out : Stage(out[i]) = 3) =>
          Positions("Missing values per key column") # {}

\* C11 as stated: a run prints dataset shape, then dtypes, then head rows,
\* then the missing-value report, the descriptive statistics, the cleaning
\* report and the analysis report; Loader before Cleaner before Analyzer.
C11_ShapeDtypesHead ==
    /\ SectionsInOrder(<<"Dataset shape", "Column data types", "First few rows",
                         "Missing values analysis", "Basic statistics",
                         "Data cleaning report", "COMPREHENSIVE ANALYSIS REPORT">>)
    /\ ComponentsInOrder

\* C11 amended: a run prints dataset shape, then head rows, then dtypes, then
\* the missing-value report, the descriptive statistics, the cleaning report
\* and the analysis report, in this order and no other; the Loader completes
\* before the Cleaner starts and the Cleaner before the Analyzer.
C11_ShapeHeadDtypes ==
    /\ SectionsInOrder(<<"Dataset shape", "First few rows", "Column data types",
                         "Missing values analysis", "Basic statistics",
                         "Data cleaning report", "COMPREHENSIVE ANALYSIS REPORT">>)
    /\ ComponentsInOrder

C11_Witness ==
    /\ pc = "done"
    /\ Len(df) = 2
    /\ Positions("COMPREHENSIVE ANALYSIS REPORT") # {}
    /\ Positions("Average abstract length") = {Len(out)}

\* C12: no operation after loading modifies the table it is given: the
\* loaded table stays as loaded through clean and everything after it, and
\* the cleaned table stays as clean returned it through the cleaning report
\* and every aggregation of the Analyzer.
C12_InputsUnchanged ==
    [][ /\ pc # "start" => df' = df
        /\ pc \in {"cleaned", "reported", "trends", "titles", "sources"} =>
              df_clean' = df_clean ]_vars

C12_Witness ==
    /\ pc = "done"
    /\ Len(df) = Len(df_clean)
    /\ \E i \in DOMAIN df :
          /\ isna(df[i]["title"])
          /\ df[i]["publish_time"].kind = "str"
          /\ df_clean[i]["title"] = UnknownTitle
          /\ df_clean[i]["publish_time"].kind = "datetime64"
    /\ top_journals # <<>> /\ common_words # <<>> /\ top_sources # <<>>

====
